---- MODULE Spec2Model ----
(***************************************************************************)
(* Logic-grid puzzle generator (src/logicgrid/data/generate.py): ground    *)
(* truth, clue pool, build-up clue selection against the CSP oracle, the   *)
(* dataset loop of __main__, and direct calls of the oracle.               *)
(*                                                                         *)
(* Python values:  None is the empty tuple << >>, a non-None record x      *)
(* returned where None is possible is << x >>; a dict with ordered keys    *)
(* (a template's "categories") is a sequence of [name, items] records; a   *)
(* list of strings is a sequence of strings; a str built by formatting is  *)
(* a sequence of one-character strings.                                    *)
(***************************************************************************)
EXTENDS Integers, Sequences, FiniteSets, TLC

VARIABLES
    PUZZLE_TEMPLATES,        \* the module-level template list
    pc,                      \* "main" | "loop" | "done" | "raised"
    puzzles_generated_count, \* __main__'s counter
    ALL_PUZZLES_GENERATED,   \* the puzzle_id of every record appended, in order
    template,                \* __main__'s template (the argument of the call)
    new_puzzle,              \* what the last call returned: None or a record
    ground_truth,            \* locals of generate_puzzle_from_template ...
    all_possible_clues,
    essential_clues,
    current_solution_count,
    max_attempts,
    attempts,
    clue_pool,
    given_clues,             \* a direct call of verify_solution: its clue list
    returned,                \* ... and its outcome (None before the call)
    sudoku,           \* a call of a Sudoku function: its argument
    expected,                \* a call of check_solution: its two arguments
    actual,
    llm_solution,            \* a call of evaluate_solution: its first argument
    reader,                  \* process_sudokus: the rows not read yet
    total_puzzles,           \* ... its counters and its result list
    solved_puzzles,
    timeout_puzzles,
    results,
    current_row,             \* ... the row being processed (None between rows)
    result,                  \* ... what solve_sudoku_with_timeout returned
    threads                  \* every worker thread started, in order

vars == << PUZZLE_TEMPLATES, pc, puzzles_generated_count, ALL_PUZZLES_GENERATED,
           template, new_puzzle, ground_truth, all_possible_clues,
           essential_clues, current_solution_count, max_attempts, attempts,
           clue_pool, given_clues, returned, sudoku, expected, actual,
           llm_solution, reader, total_puzzles, solved_puzzles, timeout_puzzles,
           results, current_row, result, threads >>

\* the state of the evaluation scripts (src/logicgrid/agents, src/sudoku/agents)
evalVars == << expected, actual, llm_solution, reader, total_puzzles,
               solved_puzzles, timeout_puzzles, results, current_row, result, threads >>

\* the arguments and result of a direct call of a function
oracleVars == << given_clues, returned, sudoku, evalVars >>

-----------------------------------------------------------------------------
(* Bounds and Python constants *)

\* number of puzzles the dataset loop asks for (5 in the source)
N_PUZZLES_TO_GENERATE == 2

None == << >>
Some(x) == << x >>

\* no evaluation script is running
EvalIdle ==
    /\ expected = << >>
    /\ actual = << >>
    /\ llm_solution = << >>
    /\ reader = << >>
    /\ total_puzzles = 0
    /\ solved_puzzles = 0
    /\ timeout_puzzles = 0
    /\ results = << >>
    /\ current_row = << >>
    /\ result = << >>
    /\ threads = << >>

\* what get_category_name returns for an item of no category
NoCategory == "<None>"
\* find_base_and_other_item's initial None for a string-valued local
NoItem == "<None>"

-----------------------------------------------------------------------------
(* Templates: scaled-down instances of the shapes in PUZZLE_TEMPLATES, and   *)
(* templates that break the size invariant or the distinctness of names.     *)

T_mascotas ==
    [ id_prefix |-> << "m", "_", "2", "x", "3" >>,
      base_category |-> "Persona",
      categories |-> << [name |-> "Persona", items |-> << "Ana", "Beto" >>],
                        [name |-> "Mascota", items |-> << "Gato", "Perro" >>],
                        [name |-> "Ciudad",  items |-> << "Lima", "Quito" >>] >> ]

\* a non-base category with more values than base entities
T_more ==
    [ id_prefix |-> << "m", "o", "r", "e" >>,
      base_category |-> "Chef",
      categories |-> << [name |-> "Chef",  items |-> << "Marco", "Sofia" >>],
                        [name |-> "Plato", items |-> << "Pasta", "Curry", "Tacos" >>] >> ]

\* a non-base category with fewer values than base entities
T_fewer ==
    [ id_prefix |-> << "f", "e", "w" >>,
      base_category |-> "Chef",
      categories |-> << [name |-> "Chef",  items |-> << "Marco", "Sofia" >>],
                        [name |-> "Plato", items |-> << "Pasta" >>] >> ]

\* no non-base category at all: the CSP has no variable
T_baseonly ==
    [ id_prefix |-> << "b", "a", "s", "e" >>,
      base_category |-> "Chef",
      categories |-> << [name |-> "Chef", items |-> << "Marco", "Sofia" >>] >> ]

\* two non-base categories that declare the same value names
T_same ==
    [ id_prefix |-> << "s", "a", "m", "e" >>,
      base_category |-> "Persona",
      categories |-> << [name |-> "Persona", items |-> << "Ana", "Beto" >>],
                        [name |-> "Ida",     items |-> << "Lima", "Quito" >>],
                        [name |-> "Vuelta",  items |-> << "Lima", "Quito" >>] >> ]

\* a value name declared by two non-base categories
T_shared ==
    [ id_prefix |-> << "s", "h" >>,
      base_category |-> "Persona",
      categories |-> << [name |-> "Persona", items |-> << "Ana", "Beto" >>],
                        [name |-> "Ida",     items |-> << "Lima", "Quito" >>],
                        [name |-> "Vuelta",  items |-> << "Lima", "Cusco" >>] >> ]

\* templates whose item names are pairwise distinct, like all of PUZZLE_TEMPLATES
DistinctNameTemplates == << T_mascotas, T_more, T_fewer, T_baseonly >>
\* a template list in which categories also share value names
ClashingNameTemplates == << T_same, T_shared >>

-----------------------------------------------------------------------------
(* Helpers on Python lists and dicts *)

Range(s) == { s[i] : i \in DOMAIN s }
InList(x, s) == \E i \in DOMAIN s : s[i] = x

\* categories.keys(), categories[name]
CategoryNames(categories) == { categories[i].name : i \in DOMAIN categories }
ItemsOf(categories, name) ==
    categories[CHOOSE i \in DOMAIN categories : categories[i].name = name].items
OtherCategoryNames(categories, base_category) ==
    CategoryNames(categories) \ { base_category }
\* the non-base categories in dict order
OtherCategories(categories, base_category) ==
    SelectSeq(categories, LAMBDA c : c.name # base_category)
AllItems(categories) == UNION { Range(categories[i].items) : i \in DOMAIN categories }

\* Python truthiness of an Optional[str]
Truthy(x) == x # NoItem /\ x # ""

get_category_name(item, categories) ==
    IF \E i \in DOMAIN categories : InList(item, categories[i].items)
    THEN LET first == CHOOSE i \in DOMAIN categories :
                        /\ InList(item, categories[i].items)
                        /\ \A j \in DOMAIN categories :
                              InList(item, categories[j].items) => i <= j
         IN  categories[first].name
    ELSE NoCategory

RECURSIVE FindFrom(_, _, _, _)
FindFrom(items, base_items, k, acc) ==
    IF k > Len(items) THEN acc
    ELSE IF InList(items[k], base_items)
         THEN FindFrom(items, base_items, k + 1, << items[k], acc[2] >>)
         ELSE FindFrom(items, base_items, k + 1, << acc[1], items[k] >>)

\* << base_item, other_item >>
find_base_and_other_item(items, categories, base_category_name) ==
    FindFrom(items, ItemsOf(categories, base_category_name), 1, << NoItem, NoItem >>)

-----------------------------------------------------------------------------
(* create_ground_truth *)

IndexOf(x, s) == CHOOSE i \in DOMAIN s : s[i] = x /\ \A j \in DOMAIN s : s[j] = x => j <= i

\* random.choices in place of random.sample: draws with replacement
RandomSample_WithReplacement(population, k) ==
    { [i \in 1..k |-> population[p[i]]] : p \in [1..k -> DOMAIN population] }

\* the possible results of random.sample(population, k), k <= len(population)
RandomSample(population, k) ==
    { [i \in 1..k |-> population[p[i]]] :
        p \in { q \in [1..k -> DOMAIN population] :
                  \A i, j \in 1..k : i # j => q[i] # q[j] } }

\* random.sample raises ValueError when the sample is larger than the population
SampleRaises(categories, base_category) ==
    \E i \in DOMAIN categories :
        /\ categories[i].name # base_category
        /\ Len(categories[i].items) < Len(ItemsOf(categories, base_category))

\* solution[base_item][cat_name] = shuffled_items[i], one shuffle per category
GroundTruthOf(categories, base_category, shuffled) ==
    LET base_items == ItemsOf(categories, base_category)
    IN  [ b \in Range(base_items) |->
            [ c \in OtherCategoryNames(categories, base_category) |->
                shuffled[c][IndexOf(b, base_items)] ] ]

\* the set of ground truths create_ground_truth can return (it does not raise)
create_ground_truth(categories, base_category) ==
    LET base_items == ItemsOf(categories, base_category)
        others     == OtherCategoryNames(categories, base_category)
        draws(c)   == RandomSample(ItemsOf(categories, c), Len(base_items))
        shuffles   == { f \in [others -> UNION { draws(c) : c \in others }] :
                          \A c \in others : f[c] \in draws(c) }
    IN  { GroundTruthOf(categories, base_category, f) : f \in shuffles }

-----------------------------------------------------------------------------
(* generate_all_possible_clues *)

Clue(type, a, b) == [type |-> type, items |-> << a, b >>]

\* the negative clues of one base item and category: every other declared value
NegativeClues(base_item, cat_items, solved_item) ==
    { Clue("negative", base_item, cat_items[i]) :
        i \in { j \in DOMAIN cat_items : cat_items[j] # solved_item } }

\* the inner range starting at 0: a link clue for every ordered pair i # j
LinkClues_BothOrders(solved_items_list) ==
    { Clue("link", solved_items_list[ij[1]], solved_items_list[ij[2]]) :
        ij \in { p \in (DOMAIN solved_items_list) \X (DOMAIN solved_items_list) :
                   p[1] # p[2] } }

\* the link clues of one base item: solved_items_list[i], [j] for i < j
LinkClues(solved_items_list) ==
    { Clue("link", solved_items_list[ij[1]], solved_items_list[ij[2]]) :
        ij \in { p \in (DOMAIN solved_items_list) \X (DOMAIN solved_items_list) :
                   p[1] < p[2] } }

\* the deduplicated pool; the order of the returned list is not modelled, the
\* caller shuffles it and pops at random positions
generate_all_possible_clues(gt, categories, base_category) ==
    LET base_items == ItemsOf(categories, base_category)
        others     == OtherCategories(categories, base_category)
        solved(b)  == [i \in DOMAIN others |-> gt[b][others[i].name]]
    IN  UNION { { Clue("positive", b, gt[b][others[i].name]) : i \in DOMAIN others }
                \cup UNION { NegativeClues(b, ItemsOf(categories, others[i].name),
                                           gt[b][others[i].name]) : i \in DOMAIN others }
                \cup LinkClues(solved(b))
              : b \in Range(base_items) }

-----------------------------------------------------------------------------
(* verify_solution: the CSP oracle.  A solution maps every variable          *)
(* << base_item, cat_name >> (the code's f"{base_item}_{cat_name}") to a      *)
(* value.  The solver's getSolutions is modelled by what it returns: every    *)
(* assignment over the declared domains that satisfies all constraints, and   *)
(* the empty list when the problem has no variable.                           *)

Variables(categories, base_category) ==
    Range(ItemsOf(categories, base_category))
        \X OtherCategoryNames(categories, base_category)

OtherItems(categories, base_category) ==
    UNION { Range(ItemsOf(categories, c)) :
              c \in OtherCategoryNames(categories, base_category) }

\* addVariable(var_name, categories[cat_name]): the domain of each variable
Domains(categories, base_category) ==
    [ v \in Variables(categories, base_category) |-> Range(ItemsOf(categories, v[2])) ]
\* AllDifferentConstraint built over vars of one base item, not of one category
AllDifferent_PerBaseItem(s) ==
    \A v, w \in DOMAIN s : (v[1] = w[1] /\ v[2] # w[2]) => s[v] # s[w]

\* no AllDifferentConstraint added
AllDifferent_NotAdded(s) == TRUE

\* AllDifferentConstraint over the variables of one category
AllDifferent(s) ==
    \A v, w \in DOMAIN s : (v[2] = w[2] /\ v[1] # w[1]) => s[v] # s[w]

\* what the loop over structured_clues does with one clue: the constraint it
\* adds ("eq"/"neq" on one variable, "link" on every base item's pair of
\* variables), "skip" when it adds none, "raise" when an exception leaves the
\* function (KeyError on variables[base_item][None], ValueError on unpacking)
Constraint(clue, categories, base_category) ==
    LET bo == find_base_and_other_item(clue.items, categories, base_category)
        base_item == bo[1]
        other == bo[2]
        cat_name == get_category_name(other, categories)
        unary(kind) ==
            IF Truthy(base_item) /\ Truthy(other)
            THEN IF cat_name = NoCategory
                 THEN [kind |-> "raise"]
                 ELSE [kind |-> kind, var |-> << base_item, cat_name >>, value |-> other]
            ELSE [kind |-> "skip"]
    IN  CASE clue.type = "positive" -> unary("eq")
          [] clue.type = "negative" -> unary("neq")
          [] clue.type = "link" ->
               IF Len(clue.items) # 2 THEN [kind |-> "raise"]
               ELSE LET item1 == clue.items[1]
                        item2 == clue.items[2]
                        cat1_name == get_category_name(item1, categories)
                        cat2_name == get_category_name(item2, categories)
                    IN  IF \/ cat1_name \in { NoCategory, "" }
                           \/ cat2_name \in { NoCategory, "" }
                           \/ cat1_name = base_category
                           \/ cat2_name = base_category
                        THEN [kind |-> "skip"]
                        ELSE [kind |-> "link", cat1 |-> cat1_name, item1 |-> item1,
                              cat2 |-> cat2_name, item2 |-> item2]
          [] OTHER -> [kind |-> "skip"]

\* the lambdas of the constraints, evaluated on assignment s
Satisfies(s, con, base_items) ==
    CASE con.kind = "eq"  -> s[con.var] = con.value
      [] con.kind = "neq" -> s[con.var] # con.value
      [] con.kind = "link" ->
           \A b \in Range(base_items) :
              /\ (s[<< b, con.cat1 >>] # con.item1) \/ (s[<< b, con.cat2 >>] = con.item2)
              /\ (s[<< b, con.cat2 >>] # con.item2) \/ (s[<< b, con.cat1 >>] = con.item1)
      [] OTHER -> TRUE

\* the loop over the clues with "break" for the "continue" of a link clue that
\* names an item of no category or of the base category: later clues are not read
verify_solution_BreakOnSkippedLink(categories, base_category, structured_clues) ==
    LET vs == Variables(categories, base_category)
        domains == Domains(categories, base_category)
        base_items == ItemsOf(categories, base_category)
        all == [k \in DOMAIN structured_clues |->
                    Constraint(structured_clues[k], categories, base_category)]
        stops == { k \in DOMAIN all :
                     structured_clues[k].type = "link" /\ all[k].kind = "skip" }
        read == { k \in DOMAIN all : \A j \in stops : k < j }
    IN  IF \E k \in read : all[k].kind = "raise"
        THEN [raised |-> TRUE, solutions |-> {}]
        ELSE [raised |-> FALSE,
              solutions |->
                IF vs = {} THEN {}
                ELSE { s \in [vs -> OtherItems(categories, base_category)] :
                         /\ \A v \in vs : s[v] \in domains[v]
                         /\ AllDifferent(s)
                         /\ \A k \in read : Satisfies(s, all[k], base_items) }]

\* [raised |-> an exception left verify_solution, solutions |-> what it returned]
verify_solution(categories, base_category, structured_clues) ==
    LET vs == Variables(categories, base_category)
        domains == Domains(categories, base_category)
        base_items == ItemsOf(categories, base_category)
        cons == [k \in DOMAIN structured_clues |->
                    Constraint(structured_clues[k], categories, base_category)]
    IN  IF \E k \in DOMAIN cons : cons[k].kind = "raise"
        THEN [raised |-> TRUE, solutions |-> {}]
        ELSE [raised |-> FALSE,
              solutions |->
                IF vs = {} THEN {}
                ELSE { s \in [vs -> OtherItems(categories, base_category)] :
                         /\ \A v \in vs : s[v] \in domains[v]
                         /\ AllDifferent(s)
                         /\ \A k \in DOMAIN cons : Satisfies(s, cons[k], base_items) }]

-----------------------------------------------------------------------------
(* generate_puzzle_from_template and the dataset loop of __main__ *)

RECURSIVE Digits(_)
Digits(n) ==
    IF n < 10 THEN << CHOOSE d \in { "0", "1", "2", "3", "4", "5", "6", "7", "8", "9" } :
                        d = << "0", "1", "2", "3", "4", "5", "6", "7", "8", "9" >>[n + 1] >>
    ELSE Digits(n \div 10) \o Digits(n % 10)

\* f"{template['id_prefix']}", the identifier without the puzzle index
PuzzleId_PrefixOnly(id_prefix, puzzle_index) == id_prefix

\* f"{template['id_prefix']}_{puzzle_index}"
PuzzleId(id_prefix, puzzle_index) == id_prefix \o << "_" >> \o Digits(puzzle_index)

\* a loop that goes on only while more than two solutions are left
LoopContinues_AboveTwo ==
    /\ current_solution_count > 2
    /\ attempts < max_attempts
    /\ clue_pool # {}

\* the while condition and the "if not clue_pool: break" that follows it
LoopContinues ==
    /\ current_solution_count > 1
    /\ attempts < max_attempts
    /\ clue_pool # {}

\* the test with its "new_solution_count > 0" half dropped
Accepts_AllowsZero(new_count, current_count) ==
    new_count < current_count

\* the acceptance test on counts that stop at 2
Accepts_CountsStopAtTwo(new_count, current_count) ==
    /\ (IF new_count > 2 THEN 2 ELSE new_count)
          < (IF current_count > 2 THEN 2 ELSE current_count)
    /\ new_count > 0

\* the acceptance test of a popped clue
Accepts(new_count, current_count) ==
    new_count < current_count /\ new_count > 0

\* a final verification that abandons the attempt only on an empty solution set
FinalCheckFails_OnlyZero(count) == count < 1

\* the final verification that abandons the attempt
FinalCheckFails(count) == count # 1

NoLocals ==
    /\ ground_truth' = << >>
    /\ all_possible_clues' = {}
    /\ essential_clues' = << >>
    /\ current_solution_count' = 0
    /\ max_attempts' = 0
    /\ attempts' = 0
    /\ clue_pool' = {}

InitWith(templates) ==
    /\ PUZZLE_TEMPLATES = templates
    /\ pc = "main"
    /\ puzzles_generated_count = 0
    /\ ALL_PUZZLES_GENERATED = << >>
    /\ template = None
    /\ new_puzzle = None
    /\ ground_truth = << >>
    /\ all_possible_clues = {}
    /\ essential_clues = << >>
    /\ current_solution_count = 0
    /\ max_attempts = 0
    /\ attempts = 0
    /\ clue_pool = {}
    /\ given_clues = << >>
    /\ returned = None
    /\ sudoku = << >>
    /\ EvalIdle

Init == InitWith(DistinctNameTemplates)

\* one pass of the dataset loop up to the selection loop: random.choice of a
\* template, the call, ground truth, pool, the check of the clue-free CSP
CallGenerate ==
    /\ pc = "main"
    /\ puzzles_generated_count < N_PUZZLES_TO_GENERATE
    /\ \E i \in DOMAIN PUZZLE_TEMPLATES :
        LET t == PUZZLE_TEMPLATES[i]
            categories == t.categories
            base_category == t.base_category
        IN  /\ template' = Some(t)
            /\ new_puzzle' = None
            /\ UNCHANGED << PUZZLE_TEMPLATES, puzzles_generated_count,
                            ALL_PUZZLES_GENERATED, oracleVars >>
            /\ IF SampleRaises(categories, base_category)
               THEN /\ pc' = "raised"
                    /\ NoLocals
               ELSE \E gt \in create_ground_truth(categories, base_category) :
                     LET pool == generate_all_possible_clues(gt, categories, base_category)
                         initial_solutions ==
                             verify_solution(categories, base_category, << >>).solutions
                     IN  IF initial_solutions = {}
                         THEN /\ pc' = "main"
                              /\ NoLocals
                         ELSE /\ pc' = "loop"
                              /\ ground_truth' = gt
                              /\ all_possible_clues' = pool
                              /\ essential_clues' = << >>
                              /\ current_solution_count' = Cardinality(initial_solutions)
                              /\ max_attempts' = Cardinality(pool) * 2
                              /\ attempts' = 0
                              /\ clue_pool' = pool

\* the iteration without "attempts += 1"
SelectionIteration_NoCount ==
    /\ pc = "loop"
    /\ LoopContinues
    /\ \E clue \in clue_pool :
        LET t == template[1]
            potential_clues == Append(essential_clues, clue)
            new_solutions == verify_solution(t.categories, t.base_category, potential_clues)
            count == Cardinality(new_solutions.solutions)
        IN  /\ attempts' = attempts
            /\ clue_pool' = clue_pool \ { clue }
            /\ IF new_solutions.raised
               THEN /\ pc' = "raised"
                    /\ UNCHANGED << essential_clues, current_solution_count >>
               ELSE /\ pc' = "loop"
                    /\ IF Accepts(count, current_solution_count)
                       THEN /\ essential_clues' = potential_clues
                            /\ current_solution_count' = count
                       ELSE UNCHANGED << essential_clues, current_solution_count >>
    /\ UNCHANGED << PUZZLE_TEMPLATES, puzzles_generated_count, ALL_PUZZLES_GENERATED,
                    template, new_puzzle, ground_truth, all_possible_clues,
                    max_attempts, oracleVars >>

\* the iteration with the clue read from the pool and left in it
SelectionIteration_KeepsClue ==
    /\ pc = "loop"
    /\ LoopContinues
    /\ \E clue \in clue_pool :
        LET t == template[1]
            potential_clues == Append(essential_clues, clue)
            new_solutions == verify_solution(t.categories, t.base_category, potential_clues)
            count == Cardinality(new_solutions.solutions)
        IN  /\ attempts' = attempts + 1
            /\ clue_pool' = clue_pool
            /\ IF new_solutions.raised
               THEN /\ pc' = "raised"
                    /\ UNCHANGED << essential_clues, current_solution_count >>
               ELSE /\ pc' = "loop"
                    /\ IF Accepts(count, current_solution_count)
                       THEN /\ essential_clues' = potential_clues
                            /\ current_solution_count' = count
                       ELSE UNCHANGED << essential_clues, current_solution_count >>
    /\ UNCHANGED << PUZZLE_TEMPLATES, puzzles_generated_count, ALL_PUZZLES_GENERATED,
                    template, new_puzzle, ground_truth, all_possible_clues,
                    max_attempts, oracleVars >>

\* one iteration of the selection loop
SelectionIteration ==
    /\ pc = "loop"
    /\ LoopContinues
    /\ \E clue \in clue_pool :
        LET t == template[1]
            potential_clues == Append(essential_clues, clue)
            new_solutions == verify_solution(t.categories, t.base_category, potential_clues)
            count == Cardinality(new_solutions.solutions)
        IN  /\ attempts' = attempts + 1
            /\ clue_pool' = clue_pool \ { clue }
            /\ IF new_solutions.raised
               THEN /\ pc' = "raised"
                    /\ UNCHANGED << essential_clues, current_solution_count >>
               ELSE /\ pc' = "loop"
                    /\ IF Accepts(count, current_solution_count)
                       THEN /\ essential_clues' = potential_clues
                            /\ current_solution_count' = count
                       ELSE UNCHANGED << essential_clues, current_solution_count >>
    /\ UNCHANGED << PUZZLE_TEMPLATES, puzzles_generated_count, ALL_PUZZLES_GENERATED,
                    template, new_puzzle, ground_truth, all_possible_clues,
                    max_attempts, oracleVars >>

\* the record built at the end of a successful attempt (llm_prompt, the
\* rendered text, is left out)
FinalPuzzle(puzzle_id) ==
    [ puzzle_id |-> puzzle_id,
      ground_truth_solution |-> ground_truth,
      structured_clues_used |-> essential_clues,
      clue_count |-> Len(essential_clues) ]

\* the loop has ended: final verification, the return, and __main__'s
\* "if new_puzzle" that appends the record and counts it
FinishGenerate ==
    /\ pc = "loop"
    /\ ~LoopContinues
    /\ pc' = "main"
    /\ IF FinalCheckFails(current_solution_count)
       THEN /\ new_puzzle' = None
            /\ UNCHANGED << puzzles_generated_count, ALL_PUZZLES_GENERATED >>
       ELSE LET puzzle_id == PuzzleId(template[1].id_prefix, puzzles_generated_count + 1)
            IN  /\ new_puzzle' = Some(FinalPuzzle(puzzle_id))
                /\ ALL_PUZZLES_GENERATED' = Append(ALL_PUZZLES_GENERATED, puzzle_id)
                /\ puzzles_generated_count' = puzzles_generated_count + 1
    /\ NoLocals
    /\ UNCHANGED << PUZZLE_TEMPLATES, template, oracleVars >>

\* the dataset loop's condition is false: the completion report
MainDone ==
    /\ pc = "main"
    /\ puzzles_generated_count >= N_PUZZLES_TO_GENERATE
    /\ pc' = "done"
    /\ UNCHANGED << PUZZLE_TEMPLATES, puzzles_generated_count, ALL_PUZZLES_GENERATED,
                    template, new_puzzle, ground_truth, all_possible_clues,
                    essential_clues, current_solution_count, max_attempts, attempts,
                    clue_pool, oracleVars >>

Next ==
    \/ CallGenerate
    \/ SelectionIteration
    \/ FinishGenerate
    \/ MainDone

Spec == Init /\ [][Next]_vars

\* the same program with a template list in which value names clash
SpecClash == InitWith(ClashingNameTemplates) /\ [][Next]_vars

\* A sequential program takes its next step whenever it has one: weak fairness
\* of every action.  For SelectionIteration the definition of WF is written
\* out, with the action's guard for ENABLED <<SelectionIteration>>_vars (the
\* guard makes the pool non-empty and every iteration changes attempts).
SelectionEnabled == pc = "loop" /\ LoopContinues
Fairness ==
    /\ WF_vars(CallGenerate)
    /\ WF_vars(FinishGenerate)
    /\ WF_vars(MainDone)
    /\ ([]<>(~SelectionEnabled) \/ []<><<SelectionIteration>>_vars)
FairSpecClash == SpecClash /\ Fairness
FairSpec == Spec /\ Fairness

-----------------------------------------------------------------------------
(* Direct calls of verify_solution on clue lists that need not come from a   *)
(* ground truth: known items and an item no category declares.               *)

\* longest clue list passed to the oracle
MaxClues == 2

UnknownItem == "Zorro"
OracleTemplate == T_mascotas
OracleItems == { "Ana", "Gato", "Lima", UnknownItem }
ClueUniverse ==
    { Clue(ty, xy[1], xy[2]) :
        ty \in { "positive", "negative", "link" },
        xy \in { p \in OracleItems \X OracleItems : p[1] # p[2] } }

InitOracle ==
    /\ PUZZLE_TEMPLATES = << OracleTemplate >>
    /\ pc = "call"
    /\ puzzles_generated_count = 0
    /\ ALL_PUZZLES_GENERATED = << >>
    /\ template = Some(OracleTemplate)
    /\ new_puzzle = None
    /\ ground_truth = << >>
    /\ all_possible_clues = {}
    /\ essential_clues = << >>
    /\ current_solution_count = 0
    /\ max_attempts = 0
    /\ attempts = 0
    /\ clue_pool = {}
    /\ given_clues \in UNION { [1..n -> ClueUniverse] : n \in 0..MaxClues }
    /\ returned = None
    /\ sudoku = << >>
    /\ EvalIdle

\* verify_solution(categories, base_category, given_clues)
VerifySolutionCall ==
    /\ pc = "call"
    /\ LET t == template[1]
           r == verify_solution(t.categories, t.base_category, given_clues)
       IN  /\ returned' = Some(r)
           /\ pc' = IF r.raised THEN "raised" ELSE "returned"
    /\ UNCHANGED << PUZZLE_TEMPLATES, puzzles_generated_count, ALL_PUZZLES_GENERATED,
                    template, new_puzzle, ground_truth, all_possible_clues,
                    essential_clues, current_solution_count, max_attempts, attempts,
                    clue_pool, given_clues, sudoku, evalVars >>

NextOracle == VerifySolutionCall

SpecOracle == InitOracle /\ [][NextOracle]_vars

-----------------------------------------------------------------------------
(* Direct calls of verify_solution and generate_all_possible_clues on a      *)
(* ground truth of a template: templates of every size from no base entity   *)
(* to MaxEntities and from no non-base category to MaxCategories, in which   *)
(* every category has as many values as there are base entities, and the     *)
(* templates with a size mismatch or shared value names.                      *)

\* largest number of base entities, and of non-base categories
MaxEntities == 3
MaxCategories == 2

BaseNames == << "Ana", "Beto", "Caro", "Dora" >>
CategoryPool ==
    << [name |-> "Mascota", items |-> << "Gato", "Perro", "Loro", "Pez" >>],
       [name |-> "Ciudad",  items |-> << "Lima", "Quito", "Cusco", "Pasto" >>],
       [name |-> "Color",   items |-> << "Rojo", "Azul", "Verde", "Gris" >>] >>

\* n base entities and k non-base categories of n values each
SizedTemplate(n, k) ==
    [ id_prefix |-> << "s" >>,
      base_category |-> "Persona",
      categories |->
          << [name |-> "Persona", items |-> SubSeq(BaseNames, 1, n)] >>
          \o [ j \in 1..k |-> [name |-> CategoryPool[j].name,
                                items |-> SubSeq(CategoryPool[j].items, 1, n)] ] ]

PureTemplates ==
    { SizedTemplate(n, k) : n \in 0..MaxEntities, k \in 0..MaxCategories }
        \cup { T_more, T_same, T_shared }

\* one positive clue for every (base item, non-base category) of gt
PositiveClueList(gt, t) ==
    LET base_items == ItemsOf(t.categories, t.base_category)
        others == OtherCategories(t.categories, t.base_category)
        k == Len(others)
    IN  [ m \in 1..(Len(base_items) * k) |->
            LET b == base_items[((m - 1) \div k) + 1]
                c == others[((m - 1) % k) + 1].name
            IN  Clue("positive", b, gt[b][c]) ]

InitPure ==
    /\ PUZZLE_TEMPLATES = << >>
    /\ pc = "call"
    /\ puzzles_generated_count = 0
    /\ ALL_PUZZLES_GENERATED = << >>
    /\ \E t \in PureTemplates :
          /\ template = Some(t)
          /\ ground_truth \in create_ground_truth(t.categories, t.base_category)
          /\ given_clues \in { << >>, PositiveClueList(ground_truth, t) }
    /\ new_puzzle = None
    /\ all_possible_clues = {}
    /\ essential_clues = << >>
    /\ current_solution_count = 0
    /\ max_attempts = 0
    /\ attempts = 0
    /\ clue_pool = {}
    /\ returned = None
    /\ sudoku = << >>
    /\ EvalIdle

\* generate_all_possible_clues(ground_truth, categories, base_category)
GeneratePoolCall ==
    /\ pc = "call"
    /\ ground_truth \in create_ground_truth(template[1].categories,
                                             template[1].base_category)
    /\ pc' = "pool"
    /\ all_possible_clues' = generate_all_possible_clues(
                                 ground_truth, template[1].categories,
                                 template[1].base_category)
    /\ UNCHANGED << PUZZLE_TEMPLATES, puzzles_generated_count, ALL_PUZZLES_GENERATED,
                    template, new_puzzle, ground_truth, essential_clues,
                    current_solution_count, max_attempts, attempts, clue_pool,
                    oracleVars >>

NextPure ==
    \/ VerifySolutionCall
    \/ GeneratePoolCall

SpecPure == InitPure /\ [][NextPure]_vars

-----------------------------------------------------------------------------
(* solve_logic_grid_puzzle_tool (src/logicgrid/tools/solvers.py).  A clue is  *)
(* [type, entity, attr, value] for "eq"/"neq" and [type, attr1, value1,       *)
(* attr2, value2] for "cross_eq"/"cross_neq"; attributes is a sequence of     *)
(* [name, items] records in dict order; a variable f"{entity}_{attr}" is      *)
(* << entity, attr >>.                                                        *)

EqClue(type, entity, attr, value) ==
    [type |-> type, entity |-> entity, attr |-> attr, value |-> value]
CrossClue(type, attr1, value1, attr2, value2) ==
    [type |-> type, attr1 |-> attr1, value1 |-> value1,
     attr2 |-> attr2, value2 |-> value2]

IsCross(clue) == clue.type \in { "cross_eq", "cross_neq" }

\* val1 and val2 are locals of solve_logic_grid_puzzle_tool that cross_eq_func
\* and cross_neq_func read when the solver calls them, after the loop over the
\* clues: they hold what the last cross clue of the list assigned
LastCross(clues) ==
    CHOOSE k \in DOMAIN clues :
        IsCross(clues[k]) /\ \A j \in DOMAIN clues : IsCross(clues[j]) => j <= k

\* the constraint added for clues[k], evaluated on the complete assignment s
SolverSatisfies(s, clues, k, entities) ==
    LET clue == clues[k]
        val1 == clues[LastCross(clues)].value1
        val2 == clues[LastCross(clues)].value2
    IN  CASE clue.type = "eq"  -> s[<< clue.entity, clue.attr >>] = clue.value
          [] clue.type = "neq" -> s[<< clue.entity, clue.attr >>] # clue.value
          [] clue.type = "cross_eq" ->
               \A i \in DOMAIN entities :
                  ~ (/\ s[<< entities[i], clue.attr1 >>] = val1
                     /\ s[<< entities[i], clue.attr2 >>] # val2)
          [] clue.type = "cross_neq" ->
               \A i \in DOMAIN entities :
                  ~ (/\ s[<< entities[i], clue.attr1 >>] = val1
                     /\ s[<< entities[i], clue.attr2 >>] = val2)
          [] OTHER -> TRUE

\* the assignments the solver can find: variables over the values of their
\* attribute, all different within an attribute, every clue's constraint
SolverSolutions(entities, attributes, clues) ==
    LET vs == Range(entities) \X CategoryNames(attributes)
        values == AllItems(attributes)
    IN  IF vs = {} THEN {}
        ELSE { s \in [vs -> values] :
                 /\ \A v \in vs : InList(s[v], ItemsOf(attributes, v[2]))
                 /\ AllDifferent(s)
                 /\ \A k \in DOMAIN clues : SolverSatisfies(s, clues, k, entities) }

\* the values solve_logic_grid_puzzle_tool can return: None, or
\* {entity: {attr: value}} rebuilt from the solution getSolution found
solve_logic_grid_puzzle_tool(entities, attributes, clues) ==
    LET solutions == SolverSolutions(entities, attributes, clues)
    IN  IF solutions = {} THEN { None }
        ELSE { Some([ e \in Range(entities) |->
                        [ a \in CategoryNames(attributes) |-> sol[<< e, a >>] ] ]) :
                 sol \in solutions }

\* the puzzle handed to the tool: the base items as entities, the non-base
\* categories as attributes
SolverTemplate == T_mascotas
SolverEntities == ItemsOf(SolverTemplate.categories, SolverTemplate.base_category)
SolverAttributes == OtherCategories(SolverTemplate.categories, SolverTemplate.base_category)

SolverClueUniverse ==
    { EqClue(ty, e, SolverAttributes[a].name, v) :
        ty \in { "eq", "neq" }, e \in Range(SolverEntities),
        a \in DOMAIN SolverAttributes, v \in AllItems(SolverAttributes) }
    \cup
    { CrossClue(ty, SolverAttributes[ab[1]].name, v1, SolverAttributes[ab[2]].name, v2) :
        ty \in { "cross_eq", "cross_neq" },
        ab \in { p \in (DOMAIN SolverAttributes) \X (DOMAIN SolverAttributes) : p[1] # p[2] },
        v1 \in AllItems(SolverAttributes), v2 \in AllItems(SolverAttributes) }

\* clues whose values belong to the attribute they name
WellFormedSolverClue(clue) ==
    IF IsCross(clue)
    THEN /\ InList(clue.value1, ItemsOf(SolverAttributes, clue.attr1))
         /\ InList(clue.value2, ItemsOf(SolverAttributes, clue.attr2))
    ELSE InList(clue.value, ItemsOf(SolverAttributes, clue.attr))

InitSolver ==
    /\ PUZZLE_TEMPLATES = << SolverTemplate >>
    /\ pc = "call"
    /\ puzzles_generated_count = 0
    /\ ALL_PUZZLES_GENERATED = << >>
    /\ template = Some(SolverTemplate)
    /\ new_puzzle = None
    /\ ground_truth = << >>
    /\ all_possible_clues = {}
    /\ essential_clues = << >>
    /\ current_solution_count = 0
    /\ max_attempts = 0
    /\ attempts = 0
    /\ clue_pool = {}
    /\ given_clues \in UNION { [1..n -> { c \in SolverClueUniverse : WellFormedSolverClue(c) }] :
                                  n \in 0..MaxClues }
    /\ returned = None
    /\ sudoku = << >>
    /\ EvalIdle

\* solve_logic_grid_puzzle_tool(entities, attributes, given_clues)
SolveCall ==
    /\ pc = "call"
    /\ \E r \in solve_logic_grid_puzzle_tool(SolverEntities, SolverAttributes, given_clues) :
          returned' = Some([solution |-> r])
    /\ pc' = "solved"
    /\ UNCHANGED << PUZZLE_TEMPLATES, puzzles_generated_count, ALL_PUZZLES_GENERATED,
                    template, new_puzzle, ground_truth, all_possible_clues,
                    essential_clues, current_solution_count, max_attempts, attempts,
                    clue_pool, given_clues, sudoku, evalVars >>

NextSolver == SolveCall

SpecSolver == InitSolver /\ [][NextSolver]_vars

-----------------------------------------------------------------------------
(* Sudoku (src/sudoku/data/load.py): format_sudoku, solve_sudoku and          *)
(* is_valid_sudoku_solution on a str, a sequence of one-character strings.    *)
(* A call's outcome is [raised |-> TRUE] or [raised |-> FALSE, value |-> v].  *)

SudokuDigits == << "0", "1", "2", "3", "4", "5", "6", "7", "8", "9" >>
\* str.isdigit() of one character, int(c) of a digit, str(n) of 0..9
IsDigit(c) == InList(c, SudokuDigits)
IntOf(c) == IndexOf(c, SudokuDigits) - 1
StrOf(n) == SudokuDigits[n + 1]

Raised == [raised |-> TRUE]
Returned(v) == [raised |-> FALSE, value |-> v]

\* a length that is 16 or more and not 81 taken for a 4x4 grid
Dimensions_AtLeastSixteen(length) ==
    IF length = 81 THEN Some([size |-> 9, box_size |-> 3])
    ELSE IF length >= 16 THEN Some([size |-> 4, box_size |-> 2])
    ELSE None

\* the if / elif / else on the length that opens the three functions
Dimensions(length) ==
    IF length = 81 THEN Some([size |-> 9, box_size |-> 3])
    ELSE IF length = 16 THEN Some([size |-> 4, box_size |-> 2])
    ELSE None

\* sudoku_string[i * size + j], i and j from 0
Cell(sudoku_string, size, i, j) == sudoku_string[i * size + j + 1]

\* the index pairs of block (box_i, box_j)
Block(box_size, box_i, box_j) ==
    { << box_i * box_size + i, box_j * box_size + j >> :
        i \in 0..(box_size - 1), j \in 0..(box_size - 1) }

is_valid_sudoku_solution(sudoku_string) ==
    LET d == Dimensions(Len(sudoku_string))
    IN  IF d = None THEN FALSE
        ELSE IF \/ \E k \in DOMAIN sudoku_string : ~IsDigit(sudoku_string[k])
                \/ \E k \in DOMAIN sudoku_string : sudoku_string[k] = "0"
        THEN FALSE
        ELSE LET size == d[1].size
                 box_size == d[1].box_size
                 grid(i, j) == IntOf(Cell(sudoku_string, size, i, j))
                 N == 0..(size - 1)
             IN  /\ \A row \in N : Cardinality({ grid(row, j) : j \in N }) = size
                 /\ \A col \in N : Cardinality({ grid(row, col) : row \in N }) = size
                 /\ \A box_i \in 0..(box_size - 1), box_j \in 0..(box_size - 1) :
                       Cardinality({ grid(p[1], p[2]) :
                                       p \in Block(box_size, box_i, box_j) }) = size

\* cells[i][j] >= 1, cells[i][j] < size
CellValues_BelowSize(size) == 1..(size - 1)

\* cells[i][j] >= 1, cells[i][j] <= size
CellValues(size) == 1..size

\* the rows that are within the cell range and Distinct
DistinctRows(size) ==
    { r \in [0..(size - 1) -> CellValues(size)] :
        \A i, j \in 0..(size - 1) : i # j => r[i] # r[j] }

\* row r can follow the rows of g: Distinct on every column, and on every
\* block that the new row shares with rows of g
RowFits(g, r, size, box_size) ==
    \A i \in 1..Len(g) :
       /\ \A j \in 0..(size - 1) : g[i][j] # r[j]
       /\ (i - 1) \div box_size = Len(g) \div box_size =>
             \A j, k \in 0..(size - 1) :
                j \div box_size = k \div box_size => g[i][j] # r[k]

\* the first n rows of the assignments of cells that satisfy the range, and
\* Distinct on every row, column and block
RECURSIVE PartialGrids(_, _, _)
PartialGrids(size, box_size, n) ==
    IF n = 0 THEN { << >> }
    ELSE { Append(p[1], p[2]) :
             p \in { q \in PartialGrids(size, box_size, n - 1) \X DistinctRows(size) :
                       RowFits(q[1], q[2], size, box_size) } }

\* the assignments of cells: cells[i][j] is row i + 1, column j
CompletedGrids(size, box_size) == PartialGrids(size, box_size, size)

\* the same for the 4x4 grid, computed once
CompletedGrids4x4 == { cells : cells \in CompletedGrids(4, 2) }

\* Distinct on every row, column and block of cells
DistinctUnits(cells, size, box_size) ==
    /\ \A i \in 0..(size - 1) :
          /\ \A j, k \in 0..(size - 1) : j # k => cells[i + 1][j] # cells[i + 1][k]
          /\ \A j, k \in 0..(size - 1) : j # k => cells[j + 1][i] # cells[k + 1][i]
    /\ \A box_i \in 0..(box_size - 1), box_j \in 0..(box_size - 1) :
          \A p, q \in Block(box_size, box_i, box_j) :
             p # q => cells[p[1] + 1][p[2]] # cells[q[1] + 1][q[2]]

\* the assignments of cells that equal grid where grid is not 0, are in the
\* cell range everywhere and Distinct on every row, column and block, found
\* by filling the cells where grid is 0
FilledGrids(grid, size, box_size) ==
    LET empty == { k \in 1..(size * size) : grid[k] = 0 }
        CellsOf(fill) ==
            [ i \in 1..size |->
                [ j \in 0..(size - 1) |->
                    LET k == (i - 1) * size + j + 1
                    IN  IF k \in empty THEN fill[k] ELSE grid[k] ] ]
    IN  IF \E k \in 1..(size * size) : grid[k] # 0 /\ grid[k] \notin CellValues(size)
        THEN {}
        ELSE { CellsOf(fill) :
                 fill \in { f \in [empty -> CellValues(size)] :
                              DistinctUnits(CellsOf(f), size, box_size) } }

\* the models of the solver: the completed grids that agree with the non-zero
\* cells of grid (grid = [[int(sudoku_str[i*size + j]) ...]], kept flat here)
SudokuModels(sudoku_str, size, box_size) ==
    LET grid == [ k \in 1..(size * size) |-> IntOf(sudoku_str[k]) ]
    IN  IF size = 4
        THEN { cells \in CompletedGrids4x4 :
                 \A i, j \in 0..(size - 1) :
                    grid[i * size + j + 1] # 0 => cells[i + 1][j] = grid[i * size + j + 1] }
        ELSE FilledGrids(grid, size, box_size)

\* the cells joined column by column
SolutionString_ByColumns(cells, size) ==
    [ k \in 1..(size * size) |-> StrOf(cells[((k - 1) % size) + 1][(k - 1) \div size]) ]

\* ''.join(str(model.evaluate(cells[i][j])) ...)
SolutionString(cells, size) ==
    [ k \in 1..(size * size) |-> StrOf(cells[(k - 1) \div size + 1][(k - 1) % size]) ]

\* the outcomes of solve_sudoku: ValueError (the length, or int() of a character
\* that is no digit), None, or the string of a model
solve_sudoku(sudoku_str) ==
    LET d == Dimensions(Len(sudoku_str))
    IN  IF d = None THEN { Raised }
        ELSE IF \E k \in 1..(d[1].size * d[1].size) : ~IsDigit(sudoku_str[k])
        THEN { Raised }
        ELSE LET models == SudokuModels(sudoku_str, d[1].size, d[1].box_size)
             IN  IF models = {} THEN { Returned(None) }
                 ELSE { Returned(Some(SolutionString(cells, d[1].size))) : cells \in models }

Repeat(x, n) == [ k \in 1..n |-> x ]
RECURSIVE Concat(_)
Concat(ss) == IF ss = << >> THEN << >> ELSE Head(ss) \o Concat(Tail(ss))

\* "+-------+-------+-------+\n" for box 3, "+-----+-----+\n" for box 2
FormatLine(box) ==
    Concat([ b \in 1..box |-> << "+" >> \o Repeat("-", 2 * box + 1) ]) \o << "+", "\n" >>

FormatRow(sudoku_string, size, box, i) ==
    Concat([ j1 \in 1..size |->
               LET j == j1 - 1
                   val == Cell(sudoku_string, size, i, j)
               IN  (IF j % box = 0 THEN << "|", " " >> ELSE << >>)
                   \o << (IF val # "0" THEN val ELSE "."), " " >> ])
        \o << "|", "\n" >>

format_sudoku(sudoku_string) ==
    LET d == Dimensions(Len(sudoku_string))
    IN  IF d = None THEN Raised
        ELSE LET size == d[1].size
                 box == d[1].box_size
                 line == FormatLine(box)
             IN  Returned(line \o Concat([ i1 \in 1..size |->
                                FormatRow(sudoku_string, size, box, i1 - 1)
                                    \o (IF i1 % box = 0 THEN line ELSE << >>) ]))

\* Inputs: a solved 4x4 grid and a solved 9x9 grid, the 4x4 grid with its
\* digits relabelled, grids with one character replaced, 4x4 puzzles with
\* empty cells, and strings of other lengths.
Grid4x4 == << "1", "2", "3", "4" >> \o << "3", "4", "1", "2" >> \o
           << "2", "1", "4", "3" >> \o << "4", "3", "2", "1" >>
Grid9x9 ==
    << "5", "3", "4", "6", "7", "8", "9", "1", "2" >> \o
    << "6", "7", "2", "1", "9", "5", "3", "4", "8" >> \o
    << "1", "9", "8", "3", "4", "2", "5", "6", "7" >> \o
    << "8", "5", "9", "7", "6", "1", "4", "2", "3" >> \o
    << "4", "2", "6", "8", "5", "3", "7", "9", "1" >> \o
    << "7", "1", "3", "9", "2", "4", "8", "5", "6" >> \o
    << "9", "6", "1", "5", "3", "7", "2", "8", "4" >> \o
    << "2", "8", "7", "4", "1", "9", "6", "3", "5" >> \o
    << "3", "4", "5", "2", "8", "6", "1", "7", "9" >>
Relabel(str, m) == [ k \in DOMAIN str |-> m[str[k]] ]
PlusFour == [ c \in { "1", "2", "3", "4" } |-> StrOf(IntOf(c) + 4) ]
Substitute(str, k, c) == [ str EXCEPT ![k] = c ]
Blank(str, K) == [ k \in DOMAIN str |-> IF k \in K THEN "0" ELSE str[k] ]
SudokuChars == { "0", "1", "2", "3", "4", "5", "9", "x" }

Inputs4x4 ==
    LET solved == { Grid4x4, Relabel(Grid4x4, PlusFour) }
    IN  solved
        \cup { Substitute(g, k, c) : g \in solved, k \in DOMAIN Grid4x4, c \in SudokuChars }
        \cup { Blank(Grid4x4, K) :
                 K \in { DOMAIN Grid4x4, { k \in DOMAIN Grid4x4 : k % 2 = 0 },
                         { k \in DOMAIN Grid4x4 : k <= 8 } } }
Inputs9x9 ==
    { Grid9x9 } \cup { Substitute(Grid9x9, k, c) : k \in { 1, 41, 81 }, c \in SudokuChars }
    \cup { Blank(Grid9x9, K) : K \in { { 1, 41, 81 }, { 1, 2, 10, 11 } } }
    \cup { Blank(Substitute(Grid9x9, 81, c), { 1, 41 }) : c \in SudokuChars }
OtherLengths ==
    { << >>, SubSeq(Grid4x4, 1, 9), SubSeq(Grid4x4, 1, 15), Grid4x4 \o << "1" >>,
      SubSeq(Grid9x9, 1, 80), Grid9x9 \o << "1" >> }

InitSudoku ==
    /\ PUZZLE_TEMPLATES = << >>
    /\ puzzles_generated_count = 0
    /\ ALL_PUZZLES_GENERATED = << >>
    /\ template = None
    /\ new_puzzle = None
    /\ ground_truth = << >>
    /\ all_possible_clues = {}
    /\ essential_clues = << >>
    /\ current_solution_count = 0
    /\ max_attempts = 0
    /\ attempts = 0
    /\ clue_pool = {}
    /\ given_clues = << >>
    /\ returned = None
    /\ EvalIdle
    /\ pc \in { "solve_sudoku", "is_valid_sudoku_solution", "format_sudoku" }
    /\ sudoku \in Inputs4x4 \cup Inputs9x9 \cup OtherLengths

SudokuFrame ==
    UNCHANGED << PUZZLE_TEMPLATES, puzzles_generated_count, ALL_PUZZLES_GENERATED,
                 template, new_puzzle, ground_truth, all_possible_clues,
                 essential_clues, current_solution_count, max_attempts, attempts,
                 clue_pool, given_clues, sudoku, evalVars >>

SolveSudokuCall ==
    /\ pc = "solve_sudoku"
    /\ \E r \in solve_sudoku(sudoku) :
          /\ returned' = Some(r)
          /\ pc' = IF r.raised THEN "solve_sudoku raised" ELSE "solve_sudoku returned"
    /\ SudokuFrame

IsValidCall ==
    /\ pc = "is_valid_sudoku_solution"
    /\ returned' = Some(Returned(is_valid_sudoku_solution(sudoku)))
    /\ pc' = "is_valid_sudoku_solution returned"
    /\ SudokuFrame

FormatSudokuCall ==
    /\ pc = "format_sudoku"
    /\ returned' = Some(format_sudoku(sudoku))
    /\ pc' = IF format_sudoku(sudoku).raised
             THEN "format_sudoku raised" ELSE "format_sudoku returned"
    /\ SudokuFrame

NextSudoku ==
    \/ SolveSudokuCall
    \/ IsValidCall
    \/ FormatSudokuCall

SpecSudoku == InitSudoku /\ [][NextSudoku]_vars

-----------------------------------------------------------------------------
(* Scoring of logic-grid answers: check_solution                              *)
(* (src/logicgrid/tools/solvers.py) and evaluate_solution                     *)
(* (src/logicgrid/agents/llm.py).  A dict is a function on its set of keys,   *)
(* the empty dict (like None) the empty function << >>.                       *)

generatorVars == << PUZZLE_TEMPLATES, puzzles_generated_count, ALL_PUZZLES_GENERATED,
                    template, new_puzzle, all_possible_clues, essential_clues,
                    current_solution_count, max_attempts, attempts, clue_pool >>

\* the dicts with keys among keys and values in values
DictsOver(keys, values) == UNION { [K -> values] : K \in SUBSET keys }

\* the solutions {entity: {attr: value}} handed to the scoring functions
ScoredEntities == { "Ana", "Beto" }
ScoredAttributes == { "Mascota", "Ciudad" }
ScoredValues == { "Gato", "Lima" }
ScoredSolutions == DictsOver(ScoredEntities, DictsOver(ScoredAttributes, ScoredValues))

\* the entity sets are not compared
check_solution_EntitiesUnchecked(expected_solution, agent_solution) ==
    LET expected_entities == DOMAIN expected_solution
        actual_entities == DOMAIN agent_solution
    IN  \A entity \in expected_entities \cap actual_entities :
           LET expected_attrs == DOMAIN expected_solution[entity]
               actual_attrs == DOMAIN agent_solution[entity]
           IN  /\ ~ (expected_attrs # actual_attrs)
               /\ \A attr \in expected_attrs \cap actual_attrs :
                     ~ (expected_solution[entity][attr] # agent_solution[entity][attr])

\* equal starts True and every difference found sets it to False
check_solution(expected_solution, agent_solution) ==
    LET expected_entities == DOMAIN expected_solution
        actual_entities == DOMAIN agent_solution
    IN  /\ ~ (expected_entities # actual_entities)
        /\ \A entity \in expected_entities \cap actual_entities :
              LET expected_attrs == DOMAIN expected_solution[entity]
                  actual_attrs == DOMAIN agent_solution[entity]
              IN  /\ ~ (expected_attrs # actual_attrs)
                  /\ \A attr \in expected_attrs \cap actual_attrs :
                        ~ (expected_solution[entity][attr] # agent_solution[entity][attr])

\* what solve_puzzle hands over as llm_solution: None (or an empty dict), a
\* dict without the key 'solution', and dicts with it
LlmSolutions ==
    { << >>, [ puzzle_id |-> "test_1" ] }
    \cup { [ solution |-> sol ] : sol \in ScoredSolutions }
    \cup { [ puzzle_id |-> "test_1", solution |-> sol ] : sol \in ScoredSolutions }

Verdict(correct, reason) == [ correct |-> correct, reason |-> reason ]

\* the checks of the two loops that fail on llm_sol; the one met first in the
\* dicts' iteration order decides the reason returned
FailedChecks(llm_sol, truth) ==
    { "Missing person" : person \in { q \in DOMAIN truth : q \notin DOMAIN llm_sol } }
    \cup
    { "Missing category" :
        pa \in { qa \in (DOMAIN truth) \X ScoredAttributes :
                   /\ qa[1] \in DOMAIN llm_sol
                   /\ qa[2] \in DOMAIN truth[qa[1]]
                   /\ qa[2] \notin DOMAIN llm_sol[qa[1]] } }
    \cup
    { "Incorrect assignment" :
        pa \in { qa \in (DOMAIN truth) \X ScoredAttributes :
                   /\ qa[1] \in DOMAIN llm_sol
                   /\ qa[2] \in DOMAIN truth[qa[1]]
                   /\ qa[2] \in DOMAIN llm_sol[qa[1]]
                   /\ llm_sol[qa[1]][qa[2]] # truth[qa[1]][qa[2]] } }

\* the dicts evaluate_solution can return
evaluate_solution(solution_dict, truth) ==
    IF solution_dict = << >> \/ "solution" \notin DOMAIN solution_dict
    THEN { Verdict(FALSE, "Invalid solution format") }
    ELSE LET llm_sol == solution_dict.solution
         IN  IF FailedChecks(llm_sol, truth) = {}
             THEN { Verdict(TRUE, "Perfect match") }
             ELSE { Verdict(FALSE, reason) : reason \in FailedChecks(llm_sol, truth) }

InitCompare ==
    /\ PUZZLE_TEMPLATES = << >>
    /\ puzzles_generated_count = 0
    /\ ALL_PUZZLES_GENERATED = << >>
    /\ template = None
    /\ new_puzzle = None
    /\ all_possible_clues = {}
    /\ essential_clues = << >>
    /\ current_solution_count = 0
    /\ max_attempts = 0
    /\ attempts = 0
    /\ clue_pool = {}
    /\ given_clues = << >>
    /\ returned = None
    /\ sudoku = << >>
    /\ reader = << >>
    /\ total_puzzles = 0
    /\ solved_puzzles = 0
    /\ timeout_puzzles = 0
    /\ results = << >>
    /\ current_row = << >>
    /\ result = << >>
    /\ threads = << >>
    /\ \/ /\ pc = "check_solution"
          /\ expected \in ScoredSolutions
          /\ actual \in ScoredSolutions
          /\ llm_solution = << >>
          /\ ground_truth = << >>
       \/ /\ pc = "evaluate_solution"
          /\ expected = << >>
          /\ actual = << >>
          /\ llm_solution \in LlmSolutions
          /\ ground_truth \in ScoredSolutions

\* is_correct = check_solution(expected_solution, agent_solution)
CheckSolutionCall ==
    /\ pc = "check_solution"
    /\ returned' = Some(check_solution(expected, actual))
    /\ pc' = "check_solution returned"
    /\ UNCHANGED << generatorVars, ground_truth, given_clues, sudoku, evalVars >>

\* evaluation = evaluate_solution(result['llm_solution'], result['ground_truth'])
EvaluateSolutionCall ==
    /\ pc = "evaluate_solution"
    /\ \E evaluation \in evaluate_solution(llm_solution, ground_truth) :
          returned' = Some(evaluation)
    /\ pc' = "evaluate_solution returned"
    /\ UNCHANGED << generatorVars, ground_truth, given_clues, sudoku, evalVars >>

NextCompare ==
    \/ CheckSolutionCall
    \/ EvaluateSolutionCall

SpecCompare == InitCompare /\ [][NextCompare]_vars

-----------------------------------------------------------------------------
(* The Sudoku evaluation loop: process_sudokus and solve_sudoku_with_timeout  *)
(* of src/sudoku/agents/llm_9.py (agents_9.py has the same loop and creates   *)
(* its agent inside it).  A worker thread is [alive, result, exception]: the  *)
(* cells result[0] and exception[0] of the call that started it.  The time    *)
(* of thread.join(timeout) is not modelled: the timeout may elapse at any     *)
(* moment while the worker is alive.                                          *)

\* rows of the CSV file
MaxPuzzles == 2

\* the digits 1 and 2 exchanged: a complete valid grid that is not Grid9x9
SwapOneTwo ==
    [ c \in Range(SudokuDigits) |-> IF c = "1" THEN "2" ELSE IF c = "2" THEN "1" ELSE c ]

\* row['sudoku'], row['solution']
SudokuRow == [ sudoku |-> Blank(Grid9x9, { 1, 41, 81 }), solution |-> Grid9x9 ]

\* the solution strings an agent answers with: the expected one, another
\* complete valid grid, and a grid with a repeated digit
AgentAnswers ==
    { Grid9x9, Relabel(Grid9x9, SwapOneTwo), Substitute(Grid9x9, 1, "3") }

InitProcess ==
    /\ PUZZLE_TEMPLATES = << >>
    /\ puzzles_generated_count = 0
    /\ ALL_PUZZLES_GENERATED = << >>
    /\ template = None
    /\ new_puzzle = None
    /\ ground_truth = << >>
    /\ all_possible_clues = {}
    /\ essential_clues = << >>
    /\ current_solution_count = 0
    /\ max_attempts = 0
    /\ attempts = 0
    /\ clue_pool = {}
    /\ given_clues = << >>
    /\ returned = None
    /\ sudoku = << >>
    /\ expected = << >>
    /\ actual = << >>
    /\ llm_solution = << >>
    /\ pc = "for row in reader"
    /\ reader = [ i \in 1..MaxPuzzles |-> SudokuRow ]
    /\ total_puzzles = 0
    /\ solved_puzzles = 0
    /\ timeout_puzzles = 0
    /\ results = << >>
    /\ current_row = None
    /\ result = None
    /\ threads = << >>

ProcessFrame ==
    UNCHANGED << generatorVars, ground_truth, given_clues, returned, sudoku,
                 expected, actual, llm_solution >>

\* the process is running: daemon threads end with it
Running == pc \in { "for row in reader", "thread.join", "result" }

\* the loop reads a row and calls solve_sudoku_with_timeout, which starts the
\* worker and waits in thread.join
StartThread ==
    /\ pc = "for row in reader"
    /\ reader # << >>
    /\ current_row' = Some(Head(reader))
    /\ reader' = Tail(reader)
    /\ total_puzzles' = total_puzzles + 1
    /\ threads' = Append(threads, [alive |-> TRUE, result |-> None, exception |-> None])
    /\ pc' = "thread.join"
    /\ UNCHANGED << solved_puzzles, timeout_puzzles, results, result >>
    /\ ProcessFrame

\* solve_task of worker t: the agent call returns and result[0] is written
AgentReturns(t) ==
    /\ Running
    /\ threads[t].alive
    /\ \E answer \in AgentAnswers :
          threads' = [ threads EXCEPT ![t] = [alive |-> FALSE, result |-> Some(answer),
                                              exception |-> None] ]
    /\ UNCHANGED << pc, reader, total_puzzles, solved_puzzles, timeout_puzzles,
                    results, current_row, result >>
    /\ ProcessFrame

\* solve_task of worker t: the agent call raises and exception[0] is written
AgentRaises(t) ==
    /\ Running
    /\ threads[t].alive
    /\ threads' = [ threads EXCEPT ![t] = [alive |-> FALSE, result |-> None,
                                           exception |-> Some("Exception")] ]
    /\ UNCHANGED << pc, reader, total_puzzles, solved_puzzles, timeout_puzzles,
                    results, current_row, result >>
    /\ ProcessFrame

\* thread.join returns, because the worker has ended or the timeout has
\* elapsed, and solve_sudoku_with_timeout returns
JoinReturns ==
    /\ pc = "thread.join"
    /\ LET thread == threads[Len(threads)]
       IN  result' = IF thread.alive THEN None
                     ELSE IF thread.exception # None THEN None
                     ELSE thread.result
    /\ pc' = "result"
    /\ UNCHANGED << reader, total_puzzles, solved_puzzles, timeout_puzzles,
                    results, current_row, threads >>
    /\ ProcessFrame

Record(agent_solution, is_correct, status) ==
    [ puzzle |-> current_row[1].sudoku,
      expected_solution |-> current_row[1].solution,
      agent_solution |-> agent_solution,
      is_correct |-> is_correct,
      status |-> status ]

\* if is_correct or is_valid_sudoku_solution(agent_solution)
CountsAsSolved(is_correct, agent_solution) ==
    is_correct \/ is_valid_sudoku_solution(agent_solution)

\* the rest of the loop body: the timeout record, or the formatting agent's
\* answer scored against expected_solution, or the record of its exception
ScoreResult ==
    /\ pc = "result"
    /\ pc' = "for row in reader"
    /\ current_row' = None
    /\ result' = None
    /\ IF result = None
       THEN /\ timeout_puzzles' = timeout_puzzles + 1
            /\ results' = Append(results, Record(None, FALSE, "timeout"))
            /\ UNCHANGED solved_puzzles
       ELSE \/ \E agent_solution \in { result[1] } :
                 LET is_correct == agent_solution = current_row[1].solution
                 IN  /\ solved_puzzles' =
                           IF CountsAsSolved(is_correct, agent_solution)
                           THEN solved_puzzles + 1 ELSE solved_puzzles
                     /\ results' = Append(results,
                                          Record(Some(agent_solution), is_correct, "solved"))
                     /\ UNCHANGED timeout_puzzles
            \/ /\ results' = Append(results, Record(None, FALSE, "error"))
               /\ UNCHANGED << solved_puzzles, timeout_puzzles >>
    /\ UNCHANGED << reader, total_puzzles, threads >>
    /\ ProcessFrame

\* the rows are exhausted: results are written and the statistics printed
WriteResults ==
    /\ pc = "for row in reader"
    /\ reader = << >>
    /\ pc' = "statistics"
    /\ UNCHANGED << reader, total_puzzles, solved_puzzles, timeout_puzzles,
                    results, current_row, result, threads >>
    /\ ProcessFrame

NextProcess ==
    \/ StartThread
    \/ \E t \in DOMAIN threads : AgentReturns(t)
    \/ \E t \in DOMAIN threads : AgentRaises(t)
    \/ JoinReturns
    \/ ScoreResult
    \/ WriteResults

SpecProcess == InitProcess /\ [][NextProcess]_vars

-----------------------------------------------------------------------------
(* Properties *)

\* the template has the sizes the data model asks for: every non-base
\* category declares as many values as there are base entities
SizeInvariant(t) ==
    \A i \in DOMAIN t.categories :
        Len(t.categories[i].items) = Len(ItemsOf(t.categories, t.base_category))

\* truth of a clue under a ground truth gt: positive, the entity has the value;
\* negative, it does not; link, both values belong to one entity
HasValue(gt, e, v) == e \in DOMAIN gt /\ \E c \in DOMAIN gt[e] : gt[e][c] = v
ClueTrue(clue, gt) ==
    CASE clue.type = "positive" -> HasValue(gt, clue.items[1], clue.items[2])
      [] clue.type = "negative" ->
           clue.items[1] \in DOMAIN gt /\ ~HasValue(gt, clue.items[1], clue.items[2])
      [] clue.type = "link" ->
           \E e \in DOMAIN gt : HasValue(gt, e, clue.items[1]) /\ HasValue(gt, e, clue.items[2])
      [] OTHER -> FALSE

\* C1: every record generate_puzzle_from_template returns has, under the
\* oracle, exactly one solution, and that solution gives every base entity and
\* non-base category the value of the record's ground truth.
C1_UniqueAndEqualsTruth ==
    new_puzzle # None =>
        LET t == template[1]
            r == new_puzzle[1]
            v == verify_solution(t.categories, t.base_category, r.structured_clues_used)
        IN  /\ ~v.raised
            /\ Cardinality(v.solutions) = 1
            /\ \A s \in v.solutions :
                 /\ DOMAIN s = Variables(t.categories, t.base_category)
                 /\ \A var \in DOMAIN s :
                      s[var] = r.ground_truth_solution[var[1]][var[2]]

\* C2: during the selection loop every clue of the pool and every selected clue
\* is true under the ground truth, and every clue of a returned record is true
\* under the record's ground truth.
C2_CluesSound ==
    /\ pc = "loop" =>
         \A clue \in all_possible_clues \cup clue_pool \cup Range(essential_clues) :
            ClueTrue(clue, ground_truth)
    /\ new_puzzle # None =>
         \A clue \in Range(new_puzzle[1].structured_clues_used) :
            ClueTrue(clue, new_puzzle[1].ground_truth_solution)

\* the number of solutions the oracle reports for a clue list
SolutionCount(t, clues) ==
    Cardinality(verify_solution(t.categories, t.base_category, clues).solutions)

\* C3: an iteration appends the popped clue iff the count with it is positive
\* and strictly below the current count, and then the current count becomes
\* that count; otherwise only the pool changes.
C3_AppendIffStrictlyFewer ==
    [][ (pc = "loop" /\ pc' = "loop") =>
          \E clue \in clue_pool :
             /\ clue_pool' = clue_pool \ { clue }
             /\ LET n == SolutionCount(template[1], Append(essential_clues, clue))
                IN  IF n > 0 /\ n < current_solution_count
                    THEN /\ essential_clues' = Append(essential_clues, clue)
                         /\ current_solution_count' = n
                    ELSE /\ essential_clues' = essential_clues
                         /\ current_solution_count' = current_solution_count ]_vars

\* a clue has been selected, another rejected, and a clue that would leave no
\* solution at all is still in the pool
C3_Witness ==
    /\ pc = "loop"
    /\ LoopContinues
    /\ Len(essential_clues) >= 1
    /\ attempts > Len(essential_clues)
    /\ \E clue \in clue_pool :
          SolutionCount(template[1], Append(essential_clues, clue)) = 0

\* C4: every iteration of the selection loop is counted by attempts, and
\* attempts never exceeds twice the size of the generated pool, so the loop
\* ends after at most 2*|pool| iterations.
C4_AtMostTwicePoolIterations ==
    [][ (pc = "loop" /\ pc' = "loop") =>
          /\ attempts' = attempts + 1
          /\ attempts' <= 2 * Cardinality(all_possible_clues) ]_vars

\* the loop has run until the pool was empty without reaching one solution
C4_Witness ==
    /\ pc = "loop"
    /\ clue_pool = {}
    /\ attempts = Cardinality(all_possible_clues)
    /\ attempts > 0
    /\ current_solution_count > 1

\* C5: when the loop ends with a count other than 1 the call returns None:
\* no record, nothing appended or counted, and the call is over (no second
\* ground truth or pool is drawn in it).
C5_FailureReturnsNone ==
    [][ (pc = "loop" /\ ~LoopContinues /\ current_solution_count # 1) =>
          /\ new_puzzle' = None
          /\ pc' = "main"
          /\ ground_truth' = << >> /\ clue_pool' = {}
          /\ puzzles_generated_count' = puzzles_generated_count
          /\ ALL_PUZZLES_GENERATED' = ALL_PUZZLES_GENERATED ]_vars

\* a call on the template with shared names has come back with None (its
\* clue-free CSP has solutions, so it went through the loop)
C5_Witness ==
    /\ pc = "main"
    /\ template = Some(T_same)
    /\ new_puzzle = None
    /\ ALL_PUZZLES_GENERATED = << >>

\* C6: the dataset loop gives up after a bounded number of attempts: the run
\* reaches its completion report even when the calls keep failing.
C6_DatasetLoopTerminates == <>(pc = "done")

\* C7: a template whose clue-free CSP has no solution makes the call return
\* None before the selection loop: nothing popped, no further oracle call.
C7_NoSolutionReturnsNone ==
    (template # None /\ SolutionCount(template[1], << >>) = 0) =>
        /\ pc \in { "main", "done" }
        /\ new_puzzle = None
        /\ attempts = 0

\* a clue names an item that no category of the template declares
ReferencesUnknown(clue, categories) ==
    \E i \in DOMAIN clue.items : clue.items[i] \notin AllItems(categories)

\* C8: a clue list with a clue that references an unknown value makes
\* verify_solution fail with an error, whatever the clue's type.
C8_UnknownItemRaises ==
    (returned # None /\ \E k \in DOMAIN given_clues :
                            ReferencesUnknown(given_clues[k], template[1].categories))
        => returned[1].raised

\* C9: no record is ever returned for a template in which a non-base category
\* has a number of values different from the number of base entities.
C9_SizeMismatchNeverEmits ==
    new_puzzle # None => SizeInvariant(template[1])

\* C10: for a template that satisfies the size invariant the ground truth gives
\* every base entity one value per non-base category, and every declared value
\* of a non-base category to exactly one base entity.
C10_GroundTruthBijection ==
    (pc = "loop" /\ SizeInvariant(template[1])) =>
        LET t == template[1]
            base_items == Range(ItemsOf(t.categories, t.base_category))
            others == OtherCategoryNames(t.categories, t.base_category)
        IN  /\ DOMAIN ground_truth = base_items
            /\ \A b \in base_items : DOMAIN ground_truth[b] = others
            /\ \A c \in others :
                 \A v \in Range(ItemsOf(t.categories, c)) :
                    Cardinality({ b \in base_items : ground_truth[b][c] = v }) = 1

\* a ground truth of a well-sized template with two non-base categories is in use
C10_Witness ==
    /\ pc = "loop"
    /\ template = Some(T_mascotas)
    /\ SizeInvariant(template[1])
    /\ attempts = 0

\* the clue lists, one longer at most, that hold the same set of clues as p
SameSetLists(p) ==
    { q \in UNION { [1..n -> Range(p)] : n \in 0..(Len(p) + 1) } : Range(q) = Range(p) }

\* C11: what verify_solution returns depends only on the set of clues: every
\* permutation of the clue list and every list that repeats one of its clues
\* gives the same outcome and the same set of solutions.
C11_ClueSetOnly ==
    returned # None =>
        \A q \in SameSetLists(given_clues) :
            verify_solution(template[1].categories, template[1].base_category, q)
                = returned[1]

\* the oracle has returned for two different clues that both constrain and
\* together leave one solution
C11_Witness ==
    /\ returned # None
    /\ Len(given_clues) = 2
    /\ given_clues[1] # given_clues[2]
    /\ given_clues[1].type = "negative"
    /\ given_clues[2].type = "link"
    /\ ~returned[1].raised
    /\ Cardinality(returned[1].solutions) = 1

\* what an oracle that stops enumerating at 2 solutions reports for a count
Cap(n) == IF n > 2 THEN 2 ELSE n
\* the loop's acceptance test on the reports of that oracle
CappedAccepts(n, c) == Cap(n) < Cap(c) /\ Cap(n) > 0

\* C12 (as claimed): in every iteration the loop run on an oracle that stops at
\* 2 takes the decision the code takes, so both runs select the same clues and
\* end alike.  The first iteration in which the two differ starts from the
\* same selected clues in both runs.
C12_CappedOracleSameRun ==
    [][ (pc = "loop" /\ pc' = "loop") =>
          \E clue \in clue_pool :
             /\ clue_pool' = clue_pool \ { clue }
             /\ LET n == SolutionCount(template[1], Append(essential_clues, clue))
                IN  (essential_clues' # essential_clues)
                       <=> CappedAccepts(n, current_solution_count) ]_vars

\* C12 (amended): the selector depends on the exact count.  The oracle that
\* stops at 2 leads to the code's decision exactly in the iterations where the
\* count with the popped clue is 0, 1, or not below the current count; a clue
\* that lowers the count to 2 or more is appended by the code and would be
\* rejected on the capped reports.
C12_ExactCountDecides ==
    [][ (pc = "loop" /\ pc' = "loop") =>
          \E clue \in clue_pool :
             /\ clue_pool' = clue_pool \ { clue }
             /\ LET n == SolutionCount(template[1], Append(essential_clues, clue))
                    c == current_solution_count
                    appended == essential_clues' = Append(essential_clues, clue)
                IN  /\ (appended <=> CappedAccepts(n, c))
                          <=> (n = 0 \/ n = 1 \/ n >= c)
                    /\ (n >= 2 /\ n < c) => (appended /\ ~CappedAccepts(n, c)) ]_vars

\* a clue that left two or more solutions has been appended
C12_Witness ==
    /\ pc = "loop"
    /\ Len(essential_clues) = 1
    /\ current_solution_count >= 2
    /\ SolutionCount(template[1], << >>) > current_solution_count

RECURSIVE Factorial(_)
Factorial(n) == IF n = 0 THEN 1 ELSE n * Factorial(n - 1)
RECURSIVE Power(_, _)
Power(b, e) == IF e = 0 THEN 1 ELSE b * Power(b, e - 1)

\* n and k of a template
EntityCount(t) == Len(ItemsOf(t.categories, t.base_category))
OtherCategoryCount(t) == Len(OtherCategories(t.categories, t.base_category))

\* C13 (as claimed): with no clue, verify_solution on a template of n base
\* entities and k non-base categories of n values each returns (n!)^k solutions.
C13_EmptyClueCount ==
    (pc = "returned" /\ given_clues = << >> /\ SizeInvariant(template[1])) =>
        Cardinality(returned[1].solutions)
            = Power(Factorial(EntityCount(template[1])), OtherCategoryCount(template[1]))

\* C13 (amended): the same for templates with at least one base entity and at
\* least one non-base category; for 3 entities and 2 categories the count is
\* 36, which is at least 2.
C13_EmptyClueCountWithVariables ==
    (/\ pc = "returned" /\ given_clues = << >> /\ SizeInvariant(template[1])
     /\ EntityCount(template[1]) >= 1 /\ OtherCategoryCount(template[1]) >= 1) =>
        LET count == Cardinality(returned[1].solutions)
            n == EntityCount(template[1])
            k == OtherCategoryCount(template[1])
        IN  /\ count = Power(Factorial(n), k)
            /\ (n = 3 /\ k = 2) => (count = 36 /\ count >= 2)

\* the oracle has returned for 3 entities and 2 categories of 3 values, no clue
C13_Witness ==
    /\ pc = "returned"
    /\ given_clues = << >>
    /\ template = Some(SizedTemplate(3, 2))
    /\ Cardinality(returned[1].solutions) = 36

\* a ground truth as an assignment of the oracle's variables
TruthAssignment(gt, t) ==
    [ v \in Variables(t.categories, t.base_category) |-> gt[v[1]][v[2]] ]

\* C14: for a ground truth of a template (with a base entity and a non-base
\* category), the oracle on one positive clue per (entity, category) pair
\* returns exactly one solution, the ground truth.
C14_AllPositivesGiveTruth ==
    (/\ pc \in { "returned", "raised" }
     /\ EntityCount(template[1]) >= 1 /\ OtherCategoryCount(template[1]) >= 1
     /\ given_clues = PositiveClueList(ground_truth, template[1])) =>
        /\ ~returned[1].raised
        /\ returned[1].solutions = { TruthAssignment(ground_truth, template[1]) }

\* item names are pairwise distinct over all categories of the template
DistinctNames(t) ==
    \A i, j \in DOMAIN t.categories :
        \A a \in DOMAIN t.categories[i].items, b \in DOMAIN t.categories[j].items :
            (t.categories[i].items[a] = t.categories[j].items[b]) => (i = j /\ a = b)

\* the pool as the claim lists it, for ground truth gt of template t
ListedPool(gt, t) ==
    LET E == Range(ItemsOf(t.categories, t.base_category))
        others == OtherCategories(t.categories, t.base_category)
    IN  { Clue("positive", e, gt[e][others[i].name]) : e \in E, i \in DOMAIN others }
        \cup UNION { { Clue("negative", e, v) :
                          v \in Range(others[i].items) \ { gt[e][others[i].name] } }
                      : e \in E, i \in DOMAIN others }
        \cup UNION { { Clue("link", gt[e][others[i].name], gt[e][others[j].name]) :
                          j \in { m \in DOMAIN others : i < m } }
                      : e \in E, i \in DOMAIN others }

\* n*k*n + n*k*(k-1)/2
ListedPoolSize(n, k) == n * k * n + (n * k * (k - 1)) \div 2

\* C16 (as claimed): generate_all_possible_clues returns exactly the listed
\* set, and for n entities and k non-base categories with pairwise distinct
\* value names the pool has n*k*n + n*k*(k-1)/2 clues.
C16_PoolAsListed ==
    pc = "pool" =>
        /\ all_possible_clues = ListedPool(ground_truth, template[1])
        /\ DistinctNames(template[1]) =>
              Cardinality(all_possible_clues)
                 = ListedPoolSize(EntityCount(template[1]), OtherCategoryCount(template[1]))

\* C16 (amended): the same, the size being claimed for templates in which,
\* besides, every non-base category has n values.
C16_PoolAsListedSized ==
    pc = "pool" =>
        /\ all_possible_clues = ListedPool(ground_truth, template[1])
        /\ (DistinctNames(template[1]) /\ SizeInvariant(template[1])) =>
              Cardinality(all_possible_clues)
                 = ListedPoolSize(EntityCount(template[1]), OtherCategoryCount(template[1]))

\* the pool of 3 entities and 2 categories has been built: 18 + 3 clues
C16_Witness ==
    /\ pc = "pool"
    /\ template = Some(SizedTemplate(3, 2))
    /\ Cardinality(all_possible_clues) = 21
    /\ \E clue \in all_possible_clues : clue.type = "link"

\* the condition the claim gives for a cross_eq clue on a returned solution
CrossEqAsClaimed(clue, solution, entities) ==
    \A i \in DOMAIN entities :
        (solution[entities[i]][clue.attr1] = clue.value1)
            => (solution[entities[i]][clue.attr2] = clue.value2)

\* the assignments that satisfy every clue of a list of cross_eq clues as the
\* claim reads them
AdmittedAsClaimed(entities, attributes, clues) ==
    { sol \in [Range(entities) -> [CategoryNames(attributes) -> AllItems(attributes)]] :
        /\ \A e \in Range(entities), a \in CategoryNames(attributes) :
              InList(sol[e][a], ItemsOf(attributes, a))
        /\ \A e, f \in Range(entities), a \in CategoryNames(attributes) :
              e # f => sol[e][a] # sol[f][a]
        /\ \A k \in DOMAIN clues : CrossEqAsClaimed(clues[k], sol, entities) }

\* C15: a cross_eq clue admits an assignment iff every entity whose attr1 is
\* value1 has value2 as attr2: on a list of cross_eq clues the tool returns
\* only solutions that meet this for every clue, and returns None only when
\* no assignment meets it for every clue.
C15_CrossEqImplication ==
    (pc = "solved" /\ \A k \in DOMAIN given_clues : given_clues[k].type = "cross_eq") =>
        LET admitted == AdmittedAsClaimed(SolverEntities, SolverAttributes, given_clues)
        IN  IF returned[1].solution = None
            THEN admitted = {}
            ELSE returned[1].solution[1] \in admitted

\* the number of cells of unit (a set of index pairs) that hold character c
Occurrences(str, size, unit, c) ==
    Cardinality({ p \in unit : Cell(str, size, p[1], p[2]) = c })

\* every row, every column and every box of the grid contains each of the
\* digits 1..size exactly once
EachDigitOnce(str, size, box_size) ==
    LET N == 0..(size - 1)
        units == { { << i, j >> : j \in N } : i \in N }
                 \cup { { << i, j >> : i \in N } : j \in N }
                 \cup { Block(box_size, bi, bj) :
                          bi \in 0..(box_size - 1), bj \in 0..(box_size - 1) }
    IN  \A unit \in units : \A d \in 1..size :
           Occurrences(str, size, unit, StrOf(d)) = 1

\* C17: is_valid_sudoku_solution returns True for a 16-character string iff
\* every row, column and 2x2 box contains each of 1, 2, 3, 4 exactly once, and
\* for an 81-character string iff every row, column and 3x3 box contains each
\* of 1..9 exactly once
C17_ValidIffEachDigitOnce ==
    (pc = "is_valid_sudoku_solution returned" /\ Len(sudoku) \in { 16, 81 }) =>
        LET d == Dimensions(Len(sudoku))[1]
        IN  returned[1].value <=> EachDigitOnce(sudoku, d.size, d.box_size)

\* C18: a Sudoku input string whose length is neither 16 nor 81 is rejected by
\* every operation: solve_sudoku and format_sudoku raise ValueError and yield
\* no solution and no output, is_valid_sudoku_solution returns False
C18_OtherLengthsRejected ==
    Len(sudoku) \notin { 16, 81 } =>
        /\ pc \notin { "solve_sudoku returned", "format_sudoku returned" }
        /\ pc \in { "solve_sudoku raised", "format_sudoku raised" } =>
              returned = Some(Raised)
        /\ pc = "is_valid_sudoku_solution returned" =>
              returned = Some(Returned(FALSE))

\* solve_sudoku has raised on a string of 17 characters whose first 16 are a
\* solved grid
C18_Witness ==
    /\ pc = "solve_sudoku raised"
    /\ sudoku = Grid4x4 \o << "1" >>
    /\ returned = Some(Raised)

\* the fully empty 4x4 grid: sixteen '0' characters
EmptyGrid4x4 == Blank(Grid4x4, DOMAIN Grid4x4)

\* C19: for the fully empty 4x4 grid solve_sudoku returns a solution string
\* rather than None, and the constraints it builds are satisfied by more than
\* one completed grid
C19_EmptyGridSatisfiable ==
    (sudoku = EmptyGrid4x4 /\ pc \in { "solve_sudoku raised", "solve_sudoku returned" }) =>
        /\ pc = "solve_sudoku returned"
        /\ returned # Some(Returned(None))
        /\ \E cells \in SudokuModels(sudoku, 4, 2) :
              returned = Some(Returned(Some(SolutionString(cells, 4))))
        /\ is_valid_sudoku_solution(returned[1].value[1])
        /\ Cardinality(SudokuModels(sudoku, 4, 2)) > 1

\* solve_sudoku has returned on the empty grid
C19_Witness ==
    /\ sudoku = EmptyGrid4x4
    /\ pc = "solve_sudoku returned"
    /\ returned = Some(Returned(Some(Grid4x4)))

\* C20: any two records in ALL_PUZZLES_GENERATED have different puzzle_id
\* values, whatever templates are drawn and whatever attempts fail in between
C20_PuzzleIdsUnique ==
    \A i, j \in DOMAIN ALL_PUZZLES_GENERATED :
       i # j => ALL_PUZZLES_GENERATED[i] # ALL_PUZZLES_GENERATED[j]

\* two puzzles of the same template have been emitted
C20_Witness ==
    \E i, j \in DOMAIN ALL_PUZZLES_GENERATED :
       /\ i < j
       /\ ALL_PUZZLES_GENERATED[i] = PuzzleId(T_mascotas.id_prefix, i)
       /\ ALL_PUZZLES_GENERATED[j] = PuzzleId(T_mascotas.id_prefix, j)

\* the two solutions are exactly equal: same set of entities, same set of
\* attributes for every entity, same value for every (entity, attribute)
ExactlyEqual(sol1, sol2) ==
    /\ DOMAIN sol1 = DOMAIN sol2
    /\ \A e \in DOMAIN sol1 :
          /\ DOMAIN sol1[e] = DOMAIN sol2[e]
          /\ \A a \in DOMAIN sol1[e] : sol1[e][a] = sol2[e][a]

\* C21: check_solution(expected, actual) returns True iff the two solutions
\* are exactly equal, and gives the same verdict with its arguments swapped
C21_CheckSolutionIsEquality ==
    pc = "check_solution returned" =>
        /\ returned[1] <=> ExactlyEqual(expected, actual)
        /\ returned[1] <=> check_solution(actual, expected)

\* check_solution has returned False on two solutions with the same entities
\* that differ in one entity's attributes
C21_Witness ==
    /\ pc = "check_solution returned"
    /\ returned = Some(FALSE)
    /\ DOMAIN expected = ScoredEntities
    /\ DOMAIN actual = ScoredEntities
    /\ DOMAIN expected["Ana"] = ScoredAttributes
    /\ DOMAIN actual["Ana"] = { "Mascota" }
    /\ expected["Beto"] = actual["Beto"]
    /\ expected["Ana"]["Mascota"] = actual["Ana"]["Mascota"]

\* C25: evaluate_solution reports 'correct': True iff the LLM's solution
\* matches the ground truth exactly: the same persons, the same categories
\* per person and the same value for each; a solution with persons or
\* categories absent from the ground truth is not reported correct
C25_CorrectIffExactMatch ==
    pc = "evaluate_solution returned" =>
        (returned[1].correct <=>
            /\ llm_solution # << >>
            /\ "solution" \in DOMAIN llm_solution
            /\ ExactlyEqual(llm_solution.solution, ground_truth))

\* a clue as the claim reads it, on a solution {entity: {attribute: value}}
ClueHoldsAsClaimed(clue, solution, entities) ==
    CASE clue.type = "eq"  -> solution[clue.entity][clue.attr] = clue.value
      [] clue.type = "neq" -> solution[clue.entity][clue.attr] # clue.value
      [] clue.type = "cross_eq" -> CrossEqAsClaimed(clue, solution, entities)
      [] clue.type = "cross_neq" ->
           \A i \in DOMAIN entities :
              ~ (/\ solution[entities[i]][clue.attr1] = clue.value1
                 /\ solution[entities[i]][clue.attr2] = clue.value2)

\* the assignments of one value per (entity, attribute) that satisfy the
\* per-attribute all-different constraint and every clue
SatisfyingAsClaimed(entities, attributes, clues) ==
    { sol \in [Range(entities) -> [CategoryNames(attributes) -> AllItems(attributes)]] :
        /\ \A e \in Range(entities), a \in CategoryNames(attributes) :
              InList(sol[e][a], ItemsOf(attributes, a))
        /\ \A e, f \in Range(entities), a \in CategoryNames(attributes) :
              e # f => sol[e][a] # sol[f][a]
        /\ \A k \in DOMAIN clues : ClueHoldsAsClaimed(clues[k], sol, entities) }

\* C23: solve_logic_grid_puzzle_tool returns None iff no assignment satisfies
\* the all-different constraint together with every clue (eq, neq, cross_eq,
\* cross_neq); otherwise it returns an assignment {entity: {attribute: value}}
\* covering every entity and attribute that satisfies all of them
C23_NoneIffUnsatisfiable ==
    pc = "solved" =>
        LET satisfying == SatisfyingAsClaimed(SolverEntities, SolverAttributes, given_clues)
        IN  /\ returned[1].solution = None <=> satisfying = {}
            /\ returned[1].solution # None =>
                  /\ DOMAIN returned[1].solution[1] = Range(SolverEntities)
                  /\ \A e \in Range(SolverEntities) :
                        DOMAIN returned[1].solution[1][e] = CategoryNames(SolverAttributes)
                  /\ returned[1].solution[1] \in satisfying

\* str is a digit string of the length of puzzle that keeps every non-zero
\* digit of puzzle at its position
KeepsGivens(str, puzzle) ==
    /\ Len(str) = Len(puzzle)
    /\ \A k \in DOMAIN puzzle : IsDigit(str[k]) /\ (puzzle[k] # "0" => str[k] = puzzle[k])

\* the completions of puzzle: the strings of the models' form that keep its
\* givens and have each of 1..size once in every row, column and box
Completions(puzzle, size, box_size) ==
    { str \in { SolutionString(cells, size) :
                  cells \in (IF size = 4 THEN CompletedGrids4x4
                             ELSE FilledGrids([ k \in 1..(size * size) |->
                                                  IF puzzle[k] \in { StrOf(d) : d \in 1..size }
                                                  THEN IntOf(puzzle[k]) ELSE 0 ],
                                              size, box_size)) } :
        KeepsGivens(str, puzzle) /\ EachDigitOnce(str, size, box_size) }

\* C24: a string returned by solve_sudoku for a 16- or 81-digit input has the
\* length of the input, keeps every non-zero digit of the input at its
\* position and is accepted by is_valid_sudoku_solution; solve_sudoku returns
\* None exactly when no completion of the input satisfies the row, column and
\* box distinctness constraints with cell values in 1..size
C24_SolutionCompletesInput ==
    pc = "solve_sudoku returned" =>
        LET d == Dimensions(Len(sudoku))[1]
            value == returned[1].value
        IN  /\ value # None =>
                  /\ KeepsGivens(value[1], sudoku)
                  /\ is_valid_sudoku_solution(value[1])
            /\ value = None <=> Completions(sudoku, d.size, d.box_size) = {}

\* solve_sudoku has completed a 9x9 puzzle with three empty cells
C24_Witness ==
    /\ pc = "solve_sudoku returned"
    /\ sudoku = Blank(Grid9x9, { 1, 41, 81 })
    /\ returned = Some(Returned(Some(Grid9x9)))

\* C26: at every evaluation of the selection loop's condition
\* current_solution_count is the number of solutions of the CSP of
\* essential_clues and at least 1, the ground truth being one of those
\* solutions; the count with any pool clue appended is never 0
C26_TruthAlwaysAmongSolutions ==
    pc = "loop" =>
        LET t == template[1]
            v == verify_solution(t.categories, t.base_category, essential_clues)
        IN  /\ current_solution_count = Cardinality(v.solutions)
            /\ current_solution_count >= 1
            /\ TruthAssignment(ground_truth, t) \in v.solutions
            /\ \A clue \in clue_pool :
                  SolutionCount(t, Append(essential_clues, clue)) # 0

\* C27: throughout the selection loop attempts + len(clue_pool) is the initial
\* pool size, a clue that was tried is no longer in the pool, the loop runs at
\* most |pool| iterations, and when it stops the count has reached 1 or the
\* pool is empty: attempts < 2*|pool| is never what stops it
C27_PoolBoundsTheLoop ==
    pc = "loop" =>
        /\ attempts + Cardinality(clue_pool) = Cardinality(all_possible_clues)
        /\ clue_pool \subseteq all_possible_clues
        /\ Range(essential_clues) \subseteq all_possible_clues \ clue_pool
        /\ attempts <= Cardinality(all_possible_clues)
        /\ max_attempts = 2 * Cardinality(all_possible_clues)
        /\ ~LoopContinues => (current_solution_count = 1 \/ clue_pool = {})
        /\ clue_pool # {} => attempts < max_attempts

\* the loop has stopped on an empty pool, below the attempt cap, with clues
\* selected and more than one solution left
C27_Witness ==
    /\ pc = "loop"
    /\ ~LoopContinues
    /\ clue_pool = {}
    /\ attempts < max_attempts
    /\ Len(essential_clues) >= 1
    /\ current_solution_count > 1

\* the template satisfies the size invariant and has pairwise distinct value
\* names
WellFormedTemplate(t) == SizeInvariant(t) /\ DistinctNames(t)

\* ... and has a base entity and a non-base category
WellFormedTemplateWithVariables(t) ==
    /\ WellFormedTemplate(t)
    /\ EntityCount(t) >= 1
    /\ OtherCategoryCount(t) >= 1

\* C28 as stated: for every template that satisfies the size invariant and has
\* pairwise distinct value names the selection loop ends with
\* current_solution_count = 1, the call never returns None, and a run that
\* draws only such templates ends after exactly N_PUZZLES_TO_GENERATE calls
\* (every call is counted, and the completion report is reached)
C28_WellFormedAlwaysSucceeds ==
    /\ [](  (pc = "loop" /\ WellFormedTemplate(template[1]) /\ ~LoopContinues)
              => current_solution_count = 1)
    /\ [][ (pc \in { "main", "loop" } /\ pc' \in { "main", "raised" }
               /\ template' # None /\ WellFormedTemplate(template'[1]))
             => /\ pc' = "main"
                /\ new_puzzle' # None
                /\ puzzles_generated_count' = puzzles_generated_count + 1 ]_vars
    /\ <>(  pc = "done"
         \/ (template # None /\ ~WellFormedTemplate(template[1])))

\* C28 for templates that also have a base entity and a non-base category
C28_WellFormedWithVariablesSucceeds ==
    /\ [](  (pc = "loop" /\ WellFormedTemplateWithVariables(template[1]) /\ ~LoopContinues)
              => current_solution_count = 1)
    /\ [][ (pc \in { "main", "loop" } /\ pc' \in { "main", "raised" }
               /\ template' # None /\ WellFormedTemplateWithVariables(template'[1]))
             => /\ pc' = "main"
                /\ new_puzzle' # None
                /\ puzzles_generated_count' = puzzles_generated_count + 1 ]_vars
    /\ <>(  pc = "done"
         \/ (template # None /\ ~WellFormedTemplateWithVariables(template[1])))

\* the run has ended after drawing the well-formed template for every puzzle
C28_Witness ==
    /\ pc = "done"
    /\ template = Some(T_mascotas)
    /\ ALL_PUZZLES_GENERATED =
          [ i \in 1..N_PUZZLES_TO_GENERATE |-> PuzzleId(T_mascotas.id_prefix, i) ]

\* C29: for a pair of values of two different non-base categories, the two-way
\* encoding of the link clue in verify_solution admits exactly the assignments
\* that the one-way cross_eq encoding of solve_logic_grid_puzzle_tool admits
C29_LinkEqualsCrossEq ==
    (/\ pc = "solved"
     /\ Len(given_clues) = 1
     /\ given_clues[1].type = "cross_eq"
     /\ given_clues[1].attr1 # given_clues[1].attr2) =>
        LET link == Clue("link", given_clues[1].value1, given_clues[1].value2)
            two_way == verify_solution(SolverTemplate.categories,
                                       SolverTemplate.base_category, << link >>)
            one_way == SolverSolutions(SolverEntities, SolverAttributes, given_clues)
        IN  /\ ~two_way.raised
            /\ two_way.solutions = one_way
            /\ returned[1].solution # None
            /\ \E s \in two_way.solutions :
                  \A e \in Range(SolverEntities), a \in CategoryNames(SolverAttributes) :
                     returned[1].solution[1][e][a] = s[<< e, a >>]

\* the tool has solved the single clue "whoever has Perro lives in Lima"
C29_Witness ==
    /\ pc = "solved"
    /\ given_clues = << CrossClue("cross_eq", "Mascota", "Perro", "Ciudad", "Lima") >>
    /\ returned[1].solution # None
    /\ returned[1].solution[1]["Beto"] = [ Mascota |-> "Perro", Ciudad |-> "Lima" ]

\* C22: an answer is counted in solved_puzzles only when it equals the
\* puzzle's expected solution: after any sequence of processed puzzles
\* solved_puzzles is the number of result records whose is_correct is True
C22_SolvedCountsCorrectRecords ==
    pc \in { "for row in reader", "statistics" } =>
        solved_puzzles = Cardinality({ k \in DOMAIN results : results[k].is_correct })

\* the workers that are still running their agent call
InFlight == { t \in DOMAIN threads : threads[t].alive }

\* C30: the timeout cancels the worker: at most one agent call is in flight
\* at any time, the worker is no longer running when
\* solve_sudoku_with_timeout has returned, and the worker of a puzzle
\* recorded as 'timeout' is not running, so it never writes its result
\* after the record
C30_TimeoutCancelsWorker ==
    /\ Cardinality(InFlight) <= 1
    /\ pc = "result" => InFlight = {}
    /\ \A k \in DOMAIN results :
          results[k].status = "timeout" => ~ threads[k].alive

====
